---- MODULE Spec2Model ----
(***************************************************************************)
(* A model of corgi's Swagger document generator (src/swagger/index.ts):   *)
(* the sanitization pass deepOmit, the path rewrite toSwaggerPath, the     *)
(* operation-identifier derivation routesToOperationId, and generateJSON   *)
(* as invoked by the two handlers of SwaggerRoute.                         *)
(*                                                                         *)
(* JavaScript strings whose characters the code inspects (paths, methods,  *)
(* operation identifiers) are sequences of one-character strings.  JSON    *)
(* values are tagged records, so that _.isObject can be decided:           *)
(*   [t |-> "undefined"], [t |-> "string", v |-> s],                       *)
(*   [t |-> "boolean", v |-> b], [t |-> "chars", v |-> <<c1, ..>>],        *)
(*   [t |-> "object", f |-> [key |-> value]], [t |-> "array", e |-> <<>>]. *)
(* Objects that are compared by address (schemas) live in a heap.          *)
(***************************************************************************)
EXTENDS Integers, Sequences, FiniteSets, TLC

VARIABLES
  routes,        \* the route tree handed to SwaggerRoute (cascadedRoutes)
  info,          \* SwaggerRouteOptions: metadata and the definitions table
  heap,          \* address -> schema object (Joi schema or raw JSON Schema)
  initial,       \* history: the inputs as they were at construction
  response,      \* the last HTTP response a handler returned
  docs,          \* history: the documents returned by generateJSON, in order
  obj,           \* deepOmit: the object handed to the sanitization pass
  omitted,       \* deepOmit(obj)
  omittedTwice,  \* deepOmit(deepOmit(obj))
  path,          \* toSwaggerPath: the raw path
  swaggerPath,   \* toSwaggerPath(path)
  swaggerPathTwice, \* toSwaggerPath(toSwaggerPath(path))
  samePath,      \* history: the raw paths rewritten to the same swaggerPath
  phase          \* which step the pure-function specifications are at

vars == <<routes, info, heap, initial, response, docs, obj, omitted,
          omittedTwice, path, swaggerPath, swaggerPathTwice, samePath,
          phase>>

\* ------------------------------------------------------------------ bounds

MaxPathLen == 3   \* raw paths of the path specification: at most this long
MaxDepth == 3     \* nesting depth of the shapes handed to deepOmit
MaxRoutes == 2    \* terminal routes in a generated route tree
MaxCalls == 2     \* invocations of the documentation endpoint

\* ------------------------------------------------------------- JSON values

Undefined == [t |-> "undefined"]
Str(s) == [t |-> "string", v |-> s]
Bool(b) == [t |-> "boolean", v |-> b]
Chars(cs) == [t |-> "chars", v |-> cs]
Obj(f) == [t |-> "object", f |-> f]
Arr(e) == [t |-> "array", e |-> e]
EmptyObj == Obj([k \in {} |-> Undefined])

\* obj[key] = value on a JavaScript object: the key is added or overwritten.
Put(f, key, value) ==
  [k \in DOMAIN f \cup {key} |-> IF k = key THEN value ELSE f[k]]

\* lodash _.isObject: objects and arrays (and functions), not primitives.
isObject(value) == value.t \in {"object", "array"}

\* ------------------------------------------------------------- characters

\* \w of the regular expression in toSwaggerPath, [A-Za-z0-9_]: the word
\* characters among those the paths of this module are written with.
WordChars ==
  {"a", "d", "e", "i", "j", "o", "p", "r", "s", "t", "u",
   "A", "D", "E", "I", "J", "O", "P", "R", "S", "T", "U",
   "G", "C", "H", "L", "N", "g", "c", "h", "l", "n", "0", "_"}

LowerCase == <<"a", "c", "d", "e", "g", "h", "i", "j", "l", "n", "o", "p",
               "r", "s", "t", "u">>
UpperCase == <<"A", "C", "D", "E", "G", "H", "I", "J", "L", "N", "O", "P",
               "R", "S", "T", "U">>

\* String.prototype.toUpperCase / toLowerCase on one character.
toUpperCaseChar(c) ==
  IF \E n \in 1..Len(LowerCase) : LowerCase[n] = c
  THEN UpperCase[CHOOSE n \in 1..Len(LowerCase) : LowerCase[n] = c]
  ELSE c
toLowerCaseChar(c) ==
  IF \E n \in 1..Len(UpperCase) : UpperCase[n] = c
  THEN LowerCase[CHOOSE n \in 1..Len(UpperCase) : UpperCase[n] = c]
  ELSE c
toLowerCase(s) == [n \in 1..Len(s) |-> toLowerCaseChar(s[n])]

\* underscore.string capitalize(str): the first character upper-cased, the
\* rest as it is.
capitalize(s) ==
  IF Len(s) = 0 THEN s ELSE <<toUpperCaseChar(s[1])>> \o Tail(s)

\* ---------------------------------------------------------- toSwaggerPath

\* The end of the longest run of \w characters of s that starts at n
\* (n - 1 when s[n] is no \w character): the greedy (\w+).
RECURSIVE wordEnd(_, _)
wordEnd(s, n) ==
  IF n <= Len(s) /\ s[n] \in WordChars THEN wordEnd(s, n + 1) ELSE n - 1

\* path.replace(/\:(\w+)/g, "{$1}") from position n on: every ':' followed
\* by at least one \w character becomes '{' run '}', left to right.
RECURSIVE replaceFrom(_, _)
replaceFrom(s, n) ==
  IF n > Len(s) THEN <<>>
  ELSE IF s[n] = ":" /\ wordEnd(s, n + 1) > n
       THEN <<"{">> \o SubSeq(s, n + 1, wordEnd(s, n + 1)) \o <<"}">>
            \o replaceFrom(s, wordEnd(s, n + 1) + 1)
       ELSE <<s[n]>> \o replaceFrom(s, n + 1)

\* The rewrite without the g flag: only the first marker is replaced.
toSwaggerPathFirstOnly(p) ==
  IF \E n \in 1..Len(p) : p[n] = ":" /\ wordEnd(p, n + 1) > n
  THEN LET n == CHOOSE m \in 1..Len(p) :
                  /\ p[m] = ":" /\ wordEnd(p, m + 1) > m
                  /\ \A l \in 1..(m - 1) : ~(p[l] = ":" /\ wordEnd(p, l + 1) > l)
       IN SubSeq(p, 1, n - 1) \o <<"{">> \o SubSeq(p, n + 1, wordEnd(p, n + 1))
            \o <<"}">> \o SubSeq(p, wordEnd(p, n + 1) + 1, Len(p))
  ELSE p

toSwaggerPath(p) == replaceFrom(p, 1)

\* --------------------------------------------------- routesToOperationId

\* String.prototype.split("/"): the segments between the separators; a
\* string without separator is its own single segment.
RECURSIVE split(_)
split(s) ==
  IF \A n \in 1..Len(s) : s[n] # "/" THEN <<s>>
  ELSE LET n == CHOOSE m \in 1..Len(s) :
                  s[m] = "/" /\ \A l \in 1..(m - 1) : s[l] # "/"
       IN <<SubSeq(s, 1, n - 1)>> \o split(SubSeq(s, n + 1, Len(s)))

RECURSIVE join(_)
join(segments) ==
  IF Len(segments) = 0 THEN <<>> ELSE Head(segments) \o join(Tail(segments))

\* One segment of the path as routesToOperationId's map callback maps it.
operationSegment(c) ==
  IF Len(c) > 0 /\ c[1] = ":" THEN capitalize(Tail(c)) ELSE capitalize(c)

\* The derivation with the parameter marker kept in the segment.
routesToOperationIdKeepMarker(p, m) ==
  capitalize(toLowerCase(m))
    \o join([n \in 1..Len(split(p)) |-> capitalize(split(p)[n])])

routesToOperationId(p, m) ==
  capitalize(toLowerCase(m))
    \o join([n \in 1..Len(split(p)) |-> operationSegment(split(p)[n])])

\* ---------------------------------------------------------------- deepOmit

\* The keys JoiToSwaggerSchema and generateJSON hand to deepOmit.
Denylist == {"additionalProperties", "patterns"}

\* The properties every plain object inherits from Object.prototype: the
\* JavaScript `in` operator finds them in any object literal.
ObjectPrototypeKeys ==
  {"constructor", "hasOwnProperty", "isPrototypeOf", "propertyIsEnumerable",
   "toLocaleString", "toString", "valueOf", "__proto__"}

\* `key in keysToOmitIndex`, keysToOmitIndex = _.keyBy(keysToOmit): an own
\* property (one of keysToOmit) or one inherited through the prototype chain.
inKeysToOmitIndex(key, keysToOmit) ==
  key \in keysToOmit \/ key \in ObjectPrototypeKeys

\* A pass that strips the keys of objects only and hands arrays on as they
\* are.
RECURSIVE omitFromObjectSkipArrays(_, _)
omitFromObjectSkipArrays(objectToOmit, keysToOmit) ==
  IF objectToOmit.t = "array" THEN objectToOmit
  ELSE Obj([key \in {k \in DOMAIN objectToOmit.f :
                        ~inKeysToOmitIndex(k, keysToOmit)} |->
             IF isObject(objectToOmit.f[key])
             THEN omitFromObjectSkipArrays(objectToOmit.f[key], keysToOmit)
             ELSE objectToOmit.f[key]])

\* _.transform(objectToOmit, iteratee): a new accumulator (an array for an
\* array, an object for an object) filled by the iteratee, which skips a
\* key found in the index and recurses into every _.isObject value.  An
\* array's keys are its indices, never found in the index.
RECURSIVE omitFromObject(_, _)
omitFromObject(objectToOmit, keysToOmit) ==
  IF objectToOmit.t = "array"
  THEN Arr([n \in 1..Len(objectToOmit.e) |->
             IF isObject(objectToOmit.e[n])
             THEN omitFromObject(objectToOmit.e[n], keysToOmit)
             ELSE objectToOmit.e[n]])
  ELSE Obj([key \in {k \in DOMAIN objectToOmit.f :
                        ~inKeysToOmitIndex(k, keysToOmit)} |->
             IF isObject(objectToOmit.f[key])
             THEN omitFromObject(objectToOmit.f[key], keysToOmit)
             ELSE objectToOmit.f[key]])

deepOmit(o, keysToOmit) == omitFromObject(o, keysToOmit)

\* ------------------------------------------------------------ generateJSON

\* object[key] read on a JavaScript object: undefined for a missing key.
Get(o, key) == IF key \in DOMAIN o.f THEN o.f[key] ELSE Undefined

\* Object.assign(target, source): source's keys added to or overwriting
\* target's.
assign(target, source) ==
  Obj([k \in DOMAIN target.f \cup DOMAIN source.f |->
        IF k \in DOMAIN source.f THEN source.f[k] ELSE target.f[k]])

\* The schema object a reference designates.  A reference is [addr |-> a];
\* anything else stored where a reference is expected is a plain JSON value.
deref(h, ref) ==
  IF "addr" \in DOMAIN ref THEN h[ref.addr]
  ELSE [isJoi |-> FALSE, flags |-> Undefined, json |-> ref]

\* asJoiSchema(object): the object when its isJoi is set.
asJoiSchema(schema) == schema.isJoi

\* @vingle/joi-to-json-schema: the JSON Schema of a Joi schema, a new object
\* on every call; the Joi object of the model carries what it converts to.
JoiToJSONSchema(joiSchema) == joiSchema.json

JoiToSwaggerSchema(joiSchema) == deepOmit(JoiToJSONSchema(joiSchema), Denylist)

\* `#/definitions/${name}`
DefinitionRef(name) == [t |-> "string", v |-> "#/definitions/", name |-> name]

\* Reference resolution by deep equality of the two schema objects.
convertToReferenceByValue(h, definitions, schema) ==
  IF definitions # Undefined
       /\ \E n \in 1..Len(definitions.entries) :
            deref(h, definitions.entries[n].value) = deref(h, schema)
  THEN LET n == CHOOSE m \in 1..Len(definitions.entries) :
                  /\ deref(h, definitions.entries[m].value) = deref(h, schema)
                  /\ \A l \in 1..(m - 1) :
                       deref(h, definitions.entries[l].value) # deref(h, schema)
       IN Obj("$ref" :> DefinitionRef(definitions.entries[n].name))
  ELSE Undefined

\* convertToReference: the first entry of info.definitions, in for..in
\* order, whose value is the very object `schema` (===), as a $ref; undefined
\* when there is no table or no such entry.
convertToReference(h, definitions, schema) ==
  IF definitions # Undefined
       /\ \E n \in 1..Len(definitions.entries) :
            definitions.entries[n].value = schema
  THEN LET n == CHOOSE m \in 1..Len(definitions.entries) :
                  /\ definitions.entries[m].value = schema
                  /\ \A l \in 1..(m - 1) : definitions.entries[l].value # schema
       IN Obj("$ref" :> DefinitionRef(definitions.entries[n].name))
  ELSE Undefined

\* flattenRoutes (../router): one chain per terminal Route, depth first, in
\* declaration order, each chain the nodes from the top down to the Route.
RECURSIVE flattenRoutes(_)
flattenRoutes(rs) ==
  IF Len(rs) = 0 THEN <<>>
  ELSE (IF Head(rs).kind = "Namespace"
        THEN LET below == flattenRoutes(Head(rs).children)
             IN [n \in 1..Len(below) |-> <<Head(rs)>> \o below[n]]
        ELSE <<<<Head(rs)>>>>)
       \o flattenRoutes(Tail(rs))

\* routes.map(r => r.path).join("")
corgiPathOf(chain) == join([n \in 1..Len(chain) |-> chain[n].path])

\* ((joiSchemaMetadata.flags || {}) as any).presence !== "optional"
presenceRequired(joiSchema) ==
  LET flags == IF joiSchema.flags = Undefined THEN EmptyObj ELSE joiSchema.flags
  IN Get(flags, "presence") # Str("optional")

\* The requiredness of a query parameter taken for a path parameter too.
routeParameterPresenceOnly(h, paramDef) ==
  LET joiSchema == JoiToSwaggerSchema(deref(h, paramDef.def))
  IN IF paramDef.in = "body"
     THEN Obj([in |-> Str(paramDef.in), name |-> Str(paramDef.name),
               description |-> Str(""), schema |-> joiSchema,
               required |-> Bool(presenceRequired(deref(h, paramDef.def)))])
     ELSE Obj(Put(assign(Obj([in |-> Str(paramDef.in),
                              name |-> Str(paramDef.name),
                              description |-> Str("")]), joiSchema).f,
                  "required",
                  Bool(presenceRequired(deref(h, paramDef.def)))))

\* One parameter of a Namespace node: always a required path parameter.
namespaceParameter(h, param) ==
  LET joiSchema == JoiToSwaggerSchema(deref(h, param.def))
  IN Obj([in |-> Str("path"), name |-> Str(param.name),
          description |-> Str(""), type |-> Get(joiSchema, "type"),
          required |-> Bool(TRUE)])

\* One parameter of a Route: a body parameter carries the schema, any other
\* is the schema's own keys assigned over in, name and description; a path
\* parameter is required, a body or query parameter is unless optional.
routeParameter(h, paramDef) ==
  LET joiSchema == JoiToSwaggerSchema(deref(h, paramDef.def))
  IN IF paramDef.in = "body"
     THEN Obj([in |-> Str(paramDef.in), name |-> Str(paramDef.name),
               description |-> Str(""), schema |-> joiSchema,
               required |-> Bool(presenceRequired(deref(h, paramDef.def)))])
     ELSE Obj(Put(assign(Obj([in |-> Str(paramDef.in),
                              name |-> Str(paramDef.name),
                              description |-> Str("")]), joiSchema).f,
                  "required",
                  IF paramDef.in = "path" THEN Bool(TRUE)
                  ELSE Bool(presenceRequired(deref(h, paramDef.def)))))

\* _.flatMap(routes, ...).map(param => deepOmit(param, ...)): the parameters
\* of every node of the chain, in chain order, each one sanitized.
RECURSIVE parametersOf(_, _)
parametersOf(h, chain) ==
  IF Len(chain) = 0 THEN <<>>
  ELSE LET route == Head(chain)
       IN [n \in 1..Len(route.params) |->
             deepOmit(IF route.kind = "Namespace"
                      THEN namespaceParameter(h, route.params[n])
                      ELSE routeParameter(h, route.params[n]),
                      Denylist)]
          \o parametersOf(h, Tail(chain))

\* The schema of one declared response: a reference when the definitions
\* table holds the very object, else a Joi schema converted and sanitized,
\* a raw JSON Schema as it is; undefined when the response has no schema.
responseSchema(h, definitions, declared) ==
  IF declared.schema = Undefined THEN Undefined
  ELSE IF convertToReference(h, definitions, declared.schema) # Undefined
  THEN convertToReference(h, definitions, declared.schema)
  ELSE IF asJoiSchema(deref(h, declared.schema))
  THEN JoiToSwaggerSchema(deref(h, declared.schema))
  ELSE deref(h, declared.schema).json

\* Array.from(endRoute.responses).reduce(...): obj[statusCode] = {description,
\* schema} for every entry of the Map, in order.
RECURSIVE reduceResponses(_, _, _, _)
reduceResponses(h, definitions, entries, acc) ==
  IF Len(entries) = 0 THEN acc
  ELSE reduceResponses(h, definitions, Tail(entries),
         Put(acc, Head(entries).statusCode,
             Obj([description |->
                    IF Head(entries).desc \in {Undefined, Str("")}
                    THEN Str("") ELSE Head(entries).desc,
                  schema |-> responseSchema(h, definitions, Head(entries))])))

\* The operation's response map: the declared responses when the route has
\* a responses collection (a Map, truthy even when empty), else the default.
responsesOf(h, definitions, endRoute) ==
  IF endRoute.responses # Undefined
  THEN reduceResponses(h, definitions, endRoute.responses.entries, <<>>)
  ELSE 200 :> Obj([description |-> Str("Success")])

\* endRoute.operationId || this.routesToOperationId(corgiPath, method): the
\* declared identifier unless it is undefined or the empty string.
operationIdOf(endRoute, corgiPath) ==
  IF endRoute.operationId # Undefined /\ Len(endRoute.operationId.v) > 0
  THEN endRoute.operationId
  ELSE Chars(routesToOperationId(corgiPath, endRoute.method))

\* The switch on endRoute.method: the key of the operation in its path entry.
methodKey(m) ==
  CASE m = <<"G", "E", "T">> -> "get"
    [] m = <<"P", "U", "T">> -> "put"
    [] m = <<"P", "O", "S", "T">> -> "post"
    [] m = <<"P", "A", "T", "C", "H">> -> "patch"
    [] m = <<"D", "E", "L", "E", "T", "E">> -> "delete"
    [] m = <<"O", "P", "T", "I", "O", "N", "S">> -> "options"
    [] m = <<"H", "E", "A", "D">> -> "head"
    [] OTHER -> "undefined"

operationOf(h, definitions, chain) ==
  LET endRoute == chain[Len(chain)]
  IN [description |-> endRoute.description,
      produces |-> <<"application/json; charset=utf-8">>,
      parameters |-> parametersOf(h, chain),
      responses |-> responsesOf(h, definitions, endRoute),
      operationId |-> operationIdOf(endRoute, corgiPathOf(chain))]

\* A path entry that is created anew for every chain.
ensurePathAlwaysNew(paths, sp) == Put(paths, sp, <<>>)

\* if (!paths[swaggerPath]) { paths[swaggerPath] = {} }
ensurePath(paths, sp) ==
  IF sp \in DOMAIN paths THEN paths ELSE Put(paths, sp, <<>>)

\* The body of the forEach over the chains, from chain n on.
RECURSIVE pathsFrom(_, _, _, _, _)
pathsFrom(h, definitions, chains, n, paths) ==
  IF n > Len(chains) THEN paths
  ELSE LET sp == toSwaggerPath(corgiPathOf(chains[n]))
           ensured == ensurePath(paths, sp)
           endRoute == chains[n][Len(chains[n])]
       IN pathsFrom(h, definitions, chains, n + 1,
            [ensured EXCEPT ![sp] =
               Put(@, methodKey(endRoute.method),
                   operationOf(h, definitions, chains[n]))])

\* A translation of the table written back into info.definitions.
mapValuesInPlace(h, definitions) ==
  LET result ==
        [n \in 1..Len(definitions.entries) |->
           [name |-> definitions.entries[n].name,
            value |-> IF asJoiSchema(deref(h, definitions.entries[n].value))
                      THEN JoiToSwaggerSchema(deref(h, definitions.entries[n].value))
                      ELSE deref(h, definitions.entries[n].value).json]]
  IN [result |-> result, object |-> [entries |-> result]]

\* _.mapValues(object, iteratee) with generateJSON's iteratee: a new object
\* with a Joi schema converted and sanitized and any other value as it is;
\* `object` itself is left as it was.
mapValues(h, definitions) ==
  LET result ==
        [n \in 1..Len(definitions.entries) |->
           [name |-> definitions.entries[n].name,
            value |-> IF asJoiSchema(deref(h, definitions.entries[n].value))
                      THEN JoiToSwaggerSchema(deref(h, definitions.entries[n].value))
                      ELSE deref(h, definitions.entries[n].value).json]]
  IN [result |-> result, object |-> definitions]

\* generateJSON(info, request, cascadedRoutes): the document, and the inputs
\* as the call leaves them.  No statement of it assigns through the route
\* tree or a schema; info.definitions is what _.mapValues leaves of it.
generateJSON(h, inf, request, cascadedRoutes) ==
  LET mapped == IF inf.definitions = Undefined
                THEN [result |-> <<>>, object |-> Undefined]
                ELSE mapValues(h, inf.definitions)
  IN [doc |->
        [swagger |-> "2.0",
         info |-> [title |-> inf.title, version |-> inf.version,
                   description |-> inf.description,
                   termsOfService |-> inf.termsOfService,
                   contact |-> inf.contact, license |-> inf.license],
         host |-> request.headers.Host,
         basePath |-> <<"/", request.requestContext.stage, "/">>,
         schemes |-> <<request.headers.XForwardedProto>>,
         produces |-> <<"application/json; charset=utf-8">>,
         paths |-> pathsFrom(h, inf.definitions,
                             flattenRoutes(cascadedRoutes), 1, <<>>),
         tags |-> <<>>,
         definitions |-> mapped.result],
      info |-> [inf EXCEPT !.definitions = mapped.object],
      routes |-> cascadedRoutes,
      heap |-> h]

\* CorsHeaders(origin)
CorsHeaders(origin) ==
  [AccessControlAllowOrigin |-> IF origin = Undefined THEN Str("") ELSE origin,
   AccessControlAllowHeaders |-> "Content-Type",
   AccessControlAllowMethods |-> "GET, POST, PUT, PATCH, DELETE, OPTIONS",
   AccessControlMaxAge |-> 60 * 60 * 24 * 30]

\* ------------------------------------------- the pure-function specifications

\* The values of the variables a specification does not use.
NoRoutes == <<>>
NoInfo == [title |-> Undefined, version |-> Undefined,
           description |-> Undefined, termsOfService |-> Undefined,
           contact |-> Undefined, license |-> Undefined,
           definitions |-> Undefined]
NoHeap == <<>>
NoInputs == [routes |-> NoRoutes, info |-> NoInfo, heap |-> NoHeap]
NoResponse == [statusCode |-> 0]

generatorIdle ==
  /\ routes = NoRoutes /\ info = NoInfo /\ heap = NoHeap
  /\ initial = NoInputs /\ response = NoResponse /\ docs = <<>>
omitIdle == obj = Undefined /\ omitted = Undefined /\ omittedTwice = Undefined
pathIdle ==
  path = <<>> /\ swaggerPath = <<>> /\ swaggerPathTwice = <<>> /\ samePath = {}

generatorVars == <<routes, info, heap, initial, response, docs>>
omitVars == <<obj, omitted, omittedTwice>>
pathVars == <<path, swaggerPath, swaggerPathTwice, samePath>>

\* The shapes handed to the sanitization pass: JSON values nested at most d
\* deep, each level an object or an array around the level below.
ShapeKeys == {"additionalProperties", "patterns", "properties", "constructor"}
RECURSIVE Shapes(_)
Shapes(d) ==
  IF d = 0 THEN {Str("string")}
  ELSE LET below == Shapes(d - 1)
       IN below
          \cup {Obj(k :> v) : k \in ShapeKeys, v \in below}
          \cup {Obj((k :> v) @@ ("type" :> Str("object"))) :
                   k \in ShapeKeys, v \in below}
          \cup {Arr(<<v>>) : v \in below}
          \cup {Arr(<<Str("enum"), v>>) : v \in below}

InitOmit ==
  /\ obj \in {s \in Shapes(MaxDepth) : isObject(s)}
  /\ omitted = Undefined /\ omittedTwice = Undefined
  /\ phase = "shape"
  /\ generatorIdle /\ pathIdle

\* JoiToSwaggerSchema's and generateJSON's use of deepOmit.
Sanitize ==
  /\ phase = "shape"
  /\ omitted' = deepOmit(obj, Denylist)
  /\ phase' = "omitted"
  /\ UNCHANGED <<obj, omittedTwice, generatorVars, pathVars>>

\* The pass applied to its own result.
SanitizeAgain ==
  /\ phase = "omitted"
  /\ omittedTwice' = deepOmit(omitted, Denylist)
  /\ phase' = "omittedTwice"
  /\ UNCHANGED <<obj, omitted, generatorVars, pathVars>>

NextOmit == Sanitize \/ SanitizeAgain
SpecOmit == InitOmit /\ [][NextOmit]_vars

\* The raw paths: every string of at most MaxPathLen characters over the
\* alphabet, and the path of the specification's example with its rewrite.
PathAlphabet == {"/", ":", "i", "{", "}"}
ExamplePath ==
  <<"/", "u", "s", "e", "r", "s", "/", ":", "i", "d",
    "/", "p", "o", "s", "t", "s", "/", ":", "p", "o", "s", "t", "I", "d">>
ExampleSwaggerPath ==
  <<"/", "u", "s", "e", "r", "s", "/", "{", "i", "d", "}",
    "/", "p", "o", "s", "t", "s", "/", "{", "p", "o", "s", "t", "I", "d", "}">>
RawPaths ==
  UNION {[1..n -> PathAlphabet] : n \in 0..MaxPathLen}
    \cup {ExamplePath, ExampleSwaggerPath}

InitPath ==
  /\ path \in RawPaths
  /\ swaggerPath = <<>> /\ swaggerPathTwice = <<>> /\ samePath = {}
  /\ phase = "path"
  /\ generatorIdle /\ omitIdle

\* generateJSON's use of toSwaggerPath on a chain's concatenated path.
Rewrite ==
  /\ phase = "path"
  /\ swaggerPath' = toSwaggerPath(path)
  /\ samePath' = {q \in RawPaths : toSwaggerPath(q) = toSwaggerPath(path)}
  /\ phase' = "rewritten"
  /\ UNCHANGED <<path, swaggerPathTwice, generatorVars, omitVars>>

\* The rewrite applied to an already rewritten path.
RewriteAgain ==
  /\ phase = "rewritten"
  /\ swaggerPathTwice' = toSwaggerPath(swaggerPath)
  /\ phase' = "rewrittenTwice"
  /\ UNCHANGED <<path, swaggerPath, samePath, generatorVars, omitVars>>

NextPath == Rewrite \/ RewriteAgain
SpecPath == InitPath /\ [][NextPath]_vars

\* ------------------------------------------------- the documentation endpoint

GET == <<"G", "E", "T">>
PUT == <<"P", "U", "T">>
POST == <<"P", "O", "S", "T">>
PATCH == <<"P", "A", "T", "C", "H">>
DELETE == <<"D", "E", "L", "E", "T", "E">>
OPTIONS == <<"O", "P", "T", "I", "O", "N", "S">>
HEAD == <<"H", "E", "A", "D">>
Methods == {GET, PUT, POST, PATCH, DELETE, OPTIONS, HEAD}

Route(p, m, opId, params, responses) ==
  [kind |-> "Route", path |-> p, method |-> m, description |-> Str("desc"),
   operationId |-> opId, params |-> params, responses |-> responses]
Namespace(p, params, children) ==
  [kind |-> "Namespace", path |-> p, params |-> params, children |-> children]

\* The schema objects of the caller.  1, 2, 3, 6 and 7 are Joi schemas (no
\* flags, optional, required, a copy of 1, flags without presence); 4 and 5
\* are two raw JSON Schema objects with the same content.
ObjectSchemaJSON ==
  Obj([type |-> Str("object"),
       properties |-> Obj([a |-> Obj([type |-> Str("string"),
                                      additionalProperties |-> Bool(FALSE)])]),
       additionalProperties |-> Bool(FALSE),
       patterns |-> Arr(<<>>)])
RawSchemaJSON ==
  Obj([type |-> Str("object"), additionalProperties |-> Bool(FALSE)])
TheHeap ==
  << [isJoi |-> TRUE, flags |-> Undefined, json |-> ObjectSchemaJSON],
     [isJoi |-> TRUE, flags |-> Obj([presence |-> Str("optional")]),
      json |-> Obj([type |-> Str("string")])],
     [isJoi |-> TRUE, flags |-> Obj([presence |-> Str("required")]),
      json |-> Obj([type |-> Str("number")])],
     [isJoi |-> FALSE, flags |-> Undefined, json |-> RawSchemaJSON],
     [isJoi |-> FALSE, flags |-> Undefined, json |-> RawSchemaJSON],
     [isJoi |-> TRUE, flags |-> Undefined, json |-> ObjectSchemaJSON],
     [isJoi |-> TRUE, flags |-> Obj([default |-> Str("x")]),
      json |-> Obj([type |-> Str("string"), default |-> Str("x")])] >>
Ref(a) == [addr |-> a]
JoiAddrs == {1, 2, 3, 7}

BaseInfo ==
  [title |-> Str("API"), version |-> Str("1.0"), description |-> Undefined,
   termsOfService |-> Undefined, contact |-> Undefined, license |-> Undefined,
   definitions |-> Undefined]

\* Route trees: up to MaxRoutes terminal routes, laid out flat, inside one
\* namespace, inside two nested namespaces, or one beside a namespace.
TreePaths == {<<"/", "i">>, <<"/", ":", "i">>, <<"/", "{", "i", "}">>}
Leaves == {Route(p, m, Undefined, <<>>, Undefined) : p \in TreePaths, m \in {GET, POST}}
LeafLists == UNION {[1..n -> Leaves] : n \in 0..MaxRoutes}
TreesOf(leaves) ==
  {leaves,
   <<Namespace(<<"/", "u">>, <<>>, leaves)>>,
   <<Namespace(<<"/", "u">>, <<>>, <<Namespace(<<"/", ":", "j">>, <<>>, leaves)>>)>>}
  \cup (IF Len(leaves) > 0
        THEN {<<Head(leaves), Namespace(<<"/", "u">>, <<>>, Tail(leaves))>>}
        ELSE {})
InitTrees ==
  /\ routes \in UNION {TreesOf(leaves) : leaves \in LeafLists}
  /\ info = BaseInfo

\* One route under the root namespace "": the paths of the specification's
\* examples, every method, with and without a declared operation identifier.
UsersIdPath == <<"/", "u", "s", "e", "r", "s", "/", ":", "i", "d">>
OrdersPath == <<"/", "o", "r", "d", "e", "r", "s">>
PingPath == <<"/", "p", "i", "n", "g">>
DeclaredOperationIds ==
  {Undefined, Chars(<<>>),
   Chars(<<"g", "e", "t", "S", "w", "a", "g", "g", "e", "r">>)}
InitOperations ==
  /\ routes \in {<<Namespace(<<>>, <<>>, <<Route(p, m, opId, <<>>, Undefined)>>)>> :
                   p \in {UsersIdPath, OrdersPath, PingPath, <<>>},
                   m \in Methods, opId \in DeclaredOperationIds}
  /\ info = BaseInfo

\* One route with a responses collection (absent, empty, or entries for 200
\* and 404 with or without schema and description) and a definitions table
\* (absent, or entries A and B).
ResponseEntries(statusCode, descriptions) ==
  {<<>>} \cup
  {<<[statusCode |-> statusCode, desc |-> d, schema |-> sc]>> :
     d \in descriptions, sc \in {Undefined, Ref(1), Ref(4), Ref(5)}}
ResponseMaps ==
  {Undefined} \cup
  {[entries |-> a \o b] :
     a \in ResponseEntries(200, {Undefined, Str(""), Str("described")}),
     b \in ResponseEntries(404, {Undefined})}
DefinitionEntries(name, addrs) ==
  {<<>>} \cup {<<[name |-> name, value |-> Ref(a)]>> : a \in addrs}
DefinitionTables ==
  {Undefined} \cup
  {[entries |-> a \o b] : a \in DefinitionEntries("A", {1, 4, 5, 6}),
                           b \in DefinitionEntries("B", {1, 4})}
InitResponses ==
  /\ routes \in {<<Route(<<"/", "i">>, GET, Undefined, <<>>, r)>> : r \in ResponseMaps}
  /\ info \in {[BaseInfo EXCEPT !.definitions = d] : d \in DefinitionTables}

\* One route under a namespace, with parameters on both.
NamespaceParams ==
  {<<>>} \cup {<<[name |-> "n", def |-> Ref(a)]>> : a \in JoiAddrs}
RouteParam(name) ==
  {[name |-> name, in |-> in, def |-> Ref(a)] :
     in \in {"path", "query", "body"}, a \in JoiAddrs}
RouteParams ==
  {<<>>} \cup {<<p>> : p \in RouteParam("p")}
         \cup {<<p, q>> : p \in RouteParam("p"), q \in RouteParam("q")}
InitParameters ==
  /\ routes \in {<<Namespace(<<"/", ":", "n">>, np,
                     <<Route(<<"/", ":", "p">>, GET, Undefined, rp, Undefined)>>)>> :
                   np \in NamespaceParams, rp \in RouteParams}
  /\ info = BaseInfo

\* The state after the construction of SwaggerRoute(path, info, routes).
Init ==
  /\ InitTrees \/ InitOperations \/ InitResponses \/ InitParameters
  /\ heap = TheHeap
  /\ initial = [routes |-> routes, info |-> info, heap |-> heap]
  /\ response = NoResponse
  /\ docs = <<>>
  /\ phase = "serving"
  /\ omitIdle /\ pathIdle

\* The incoming LambdaProxy.Event.
Origins == {Undefined, Str("https://app")}
Request(origin) ==
  [headers |-> [Host |-> Str("api.host"), XForwardedProto |-> Str("https"),
                origin |-> origin],
   requestContext |-> [stage |-> "prod"]]

\* Route.GET("/"): a new SwaggerGenerator, generateJSON, the document as the
\* JSON body of a 200 with the CORS headers.
GetSwagger ==
  \E origin \in Origins :
    /\ phase = "serving"
    /\ Len(docs) < MaxCalls
    /\ \E json \in {generateJSON(heap, info, Request(origin), routes)} :
         /\ response' = [statusCode |-> 200, body |-> json.doc,
                         headers |-> CorsHeaders(origin)]
         /\ docs' = Append(docs, json.doc)
         /\ info' = json.info
         /\ routes' = json.routes
         /\ heap' = json.heap
    /\ UNCHANGED <<initial, phase, omitVars, pathVars>>

\* Route.OPTIONS("/"): the CORS preflight, an empty body with status 204.
OptionsSwagger ==
  \E origin \in Origins :
    /\ phase = "serving"
    /\ response' = [statusCode |-> 204, body |-> Str(""),
                    headers |-> CorsHeaders(origin)]
    /\ UNCHANGED <<routes, info, heap, initial, docs, phase, omitVars, pathVars>>

Next == GetSwagger \/ OptionsSwagger
Spec == Init /\ [][Next]_vars

\* ================================================================= claims

\* The chains of the route tree, the last document returned, and for a
\* chain its terminal route, its raw path and its operation in a document.
Chains == flattenRoutes(initial.routes)
Served == phase = "serving" /\ Len(docs) > 0
LastDoc == docs[Len(docs)]
EndRoute(chain) == chain[Len(chain)]
RawPath(chain) == join([n \in 1..Len(chain) |-> chain[n].path])
OperationEntries(doc) ==
  UNION {{<<p, k>> : k \in DOMAIN doc.paths[p]} : p \in DOMAIN doc.paths}
OperationOf(doc, chain) ==
  doc.paths[toSwaggerPath(RawPath(chain))][methodKey(EndRoute(chain).method)]
\* Chain n is the last one written under its path entry and method key.
LastWritten(n) ==
  \A m \in (n + 1)..Len(Chains) :
    \/ toSwaggerPath(RawPath(Chains[m])) # toSwaggerPath(RawPath(Chains[n]))
    \/ EndRoute(Chains[m]).method # EndRoute(Chains[n]).method

\* C1 (as stated): when no two terminal routes share the same path and
\* method, the document holds exactly one (path, method) operation entry per
\* terminal route: the method keys of all path entries number the chains.
C1_OneOperationPerRoute ==
  (Served /\ \A n, m \in 1..Len(Chains) :
               n # m => \/ RawPath(Chains[n]) # RawPath(Chains[m])
                        \/ EndRoute(Chains[n]).method # EndRoute(Chains[m]).method)
  => Cardinality(OperationEntries(LastDoc)) = Len(Chains)

\* C1 (amended): when no two terminal routes share the same rewritten
\* (output) path and method, the document holds exactly one (path, method)
\* operation entry per terminal route, each under its rewritten path and its
\* method key; routes that share a path and differ in method accumulate.
C1_OneOperationPerRewrittenPathAndMethod ==
  (Served /\ \A n \in 1..Len(Chains) : LastWritten(n))
  => /\ Cardinality(OperationEntries(LastDoc)) = Len(Chains)
     /\ \A n \in 1..Len(Chains) :
          <<toSwaggerPath(RawPath(Chains[n])),
            methodKey(EndRoute(Chains[n]).method)>> \in OperationEntries(LastDoc)

\* C1 witness: two routes below a namespace that share their path and
\* differ in method have been written into one path entry.
C1_Witness ==
  /\ Served /\ Len(Chains) = 2 /\ Len(Chains[1]) > 1
  /\ RawPath(Chains[1]) = RawPath(Chains[2])
  /\ EndRoute(Chains[1]).method # EndRoute(Chains[2]).method
  /\ Cardinality(DOMAIN LastDoc.paths) = 1

\* v is a $ref object.
IsReference(v) == v.t = "object" /\ "$ref" \in DOMAIN v.f
\* The names under which the caller's definitions table holds the very
\* object `schema`.
NamesOfSameObject(schema) ==
  IF initial.info.definitions = Undefined THEN {}
  ELSE {initial.info.definitions.entries[n].name :
          n \in {m \in 1..Len(initial.info.definitions.entries) :
                   initial.info.definitions.entries[m].value.addr = schema.addr}}
\* The declared responses of a route, as a sequence of entries.
DeclaredResponses(route) ==
  IF route.responses = Undefined THEN <<>> ELSE route.responses.entries

\* C2: for every declared response that has a schema, the emitted schema is
\* a $ref to #/definitions/<name> exactly when the response's schema is the
\* very object stored under a name of the definitions table (the $ref names
\* such an entry); a schema that is a distinct object, structurally equal
\* to an entry or not, is inlined: converted and sanitized when it is a Joi
\* schema, as it is when it is a raw JSON Schema.
C2_ReferenceIffSameObject ==
  Served =>
    \A n \in {m \in 1..Len(Chains) : LastWritten(m)} :
      \A r \in 1..Len(DeclaredResponses(EndRoute(Chains[n]))) :
        LET declared == DeclaredResponses(EndRoute(Chains[n]))[r]
            emitted == OperationOf(LastDoc, Chains[n]).responses[declared.statusCode].f.schema
        IN declared.schema # Undefined =>
             /\ IsReference(emitted) <=> NamesOfSameObject(declared.schema) # {}
             /\ IsReference(emitted) =>
                  \E name \in NamesOfSameObject(declared.schema) :
                    emitted = Obj("$ref" :> DefinitionRef(name))
             /\ ~IsReference(emitted) =>
                  emitted = IF TheHeap[declared.schema.addr].isJoi
                            THEN JoiToSwaggerSchema(TheHeap[declared.schema.addr])
                            ELSE TheHeap[declared.schema.addr].json

\* C2 witness: a response whose schema is the object stored under A came out
\* as a reference, and a response whose schema is another object with the
\* same content came out inlined.
C2_Witness ==
  /\ Served /\ Len(Chains) = 1
  /\ initial.info.definitions = [entries |-> <<[name |-> "A", value |-> Ref(4)]>>]
  /\ EndRoute(Chains[1]).responses =
       [entries |-> <<[statusCode |-> 200, desc |-> Undefined, schema |-> Ref(4)],
                      [statusCode |-> 404, desc |-> Undefined, schema |-> Ref(5)]>>]
  /\ OperationOf(LastDoc, Chains[1]).responses[200].f.schema
       = Obj("$ref" :> DefinitionRef("A"))
  /\ OperationOf(LastDoc, Chains[1]).responses[404].f.schema = RawSchemaJSON

\* C3: a route with zero declared responses, be the responses collection
\* absent or declared and empty, gets the response map
\* {200: {description: "Success"}}: no schema field, no other status code.
C3_DefaultResponse ==
  Served =>
    \A n \in {m \in 1..Len(Chains) : LastWritten(m)} :
      Len(DeclaredResponses(EndRoute(Chains[n]))) = 0 =>
        /\ DOMAIN OperationOf(LastDoc, Chains[n]).responses = {200}
        /\ OperationOf(LastDoc, Chains[n]).responses[200]
             = Obj([description |-> Str("Success")])

\* The identifier C5 describes: the method lower-cased then capitalized,
\* then the characters of the raw path without its '/' separators and
\* without the ':' that starts a segment, the first character kept of every
\* segment upper-cased.
RECURSIVE DerivedPathPart(_, _)
DerivedPathPart(p, n) ==
  IF n > Len(p) THEN <<>>
  ELSE LET segmentStart == n = 1 \/ p[n - 1] = "/"
           afterMarker == /\ n > 1 /\ p[n - 1] = ":"
                          /\ (n = 2 \/ p[n - 2] = "/")
       IN (IF p[n] = "/" THEN <<>>
           ELSE IF segmentStart /\ p[n] = ":" THEN <<>>
           ELSE IF segmentStart \/ afterMarker THEN <<toUpperCaseChar(p[n])>>
           ELSE <<p[n]>>)
          \o DerivedPathPart(p, n + 1)
DerivedOperationId(p, m) ==
  [n \in 1..Len(m) |-> IF n = 1 THEN toUpperCaseChar(toLowerCaseChar(m[n]))
                       ELSE toLowerCaseChar(m[n])]
    \o DerivedPathPart(p, 1)
GetUsersId == <<"G", "e", "t", "U", "s", "e", "r", "s", "I", "d">>
PostOrders == <<"P", "o", "s", "t", "O", "r", "d", "e", "r", "s">>

\* C5: the operationId of every operation is the identifier the route
\* declares (a non-empty one), verbatim; otherwise it is derived from the
\* method and the raw path alone as DerivedOperationId says: GET /users/:id
\* gives GetUsersId, POST /orders gives PostOrders.
C5_OperationIdDeclaredOrDerived ==
  Served =>
    \A n \in {m \in 1..Len(Chains) : LastWritten(m)} :
      LET route == EndRoute(Chains[n])
          id == OperationOf(LastDoc, Chains[n]).operationId
      IN /\ route.operationId \notin {Undefined, Chars(<<>>)} => id = route.operationId
         /\ route.operationId \in {Undefined, Chars(<<>>)} =>
              /\ id = Chars(DerivedOperationId(RawPath(Chains[n]), route.method))
              /\ (RawPath(Chains[n]) = UsersIdPath /\ route.method = GET)
                   => id = Chars(GetUsersId)
              /\ (RawPath(Chains[n]) = OrdersPath /\ route.method = POST)
                   => id = Chars(PostOrders)

\* C5 witness: GET /users/:id without a declared identifier has been given
\* its derived one.
C5_Witness ==
  /\ Served /\ Len(Chains) = 1
  /\ RawPath(Chains[1]) = UsersIdPath /\ EndRoute(Chains[1]).method = GET
  /\ EndRoute(Chains[1]).operationId = Undefined
  /\ OperationOf(LastDoc, Chains[1]).operationId = Chars(GetUsersId)

\* C6: for a route tree whose terminal routes have pairwise distinct
\* (path, method) pairs, no two operation entries of the document carry the
\* same operationId.
C6_OperationIdsUnique ==
  (Served /\ \A n, m \in 1..Len(Chains) :
               n # m => \/ RawPath(Chains[n]) # RawPath(Chains[m])
                        \/ EndRoute(Chains[n]).method # EndRoute(Chains[m]).method)
  => \A e1, e2 \in OperationEntries(LastDoc) :
       e1 # e2 => LastDoc.paths[e1[1]][e1[2]].operationId
                    # LastDoc.paths[e2[1]][e2[2]].operationId

RECURSIVE DeclaredParameters(_)
DeclaredParameters(chain) ==
  IF Len(chain) = 0 THEN <<>>
  ELSE [n \in 1..Len(Head(chain).params) |->
          [kind |-> Head(chain).kind, param |-> Head(chain).params[n]]]
       \o DeclaredParameters(Tail(chain))
\* The schema's presence flag is "optional".
IsOptional(schema) ==
  /\ schema.flags # Undefined
  /\ "presence" \in DOMAIN schema.flags.f
  /\ schema.flags.f["presence"] = Str("optional")

\* C9: the parameter list of an operation has one entry per parameter
\* declared on a node of the chain, in chain order; a Namespace parameter is
\* emitted with in = "path" and required = true, a Route parameter in `path`
\* with required = true whatever the schema's flag, a Route parameter in
\* `query` or `body` with required = true exactly when the schema's presence
\* flag is not "optional" (a schema without flags counts as required).
C9_ParameterRequiredness ==
  Served =>
    \A n \in {m \in 1..Len(Chains) : LastWritten(m)} :
      LET declared == DeclaredParameters(Chains[n])
          emitted == OperationOf(LastDoc, Chains[n]).parameters
      IN /\ Len(emitted) = Len(declared)
         /\ \A k \in 1..Len(declared) :
              LET d == declared[k]
                  schema == TheHeap[d.param.def.addr]
              IN /\ emitted[k].f["name"] = Str(d.param.name)
                 /\ d.kind = "Namespace" =>
                      /\ emitted[k].f["in"] = Str("path")
                      /\ emitted[k].f["required"] = Bool(TRUE)
                 /\ d.kind = "Route" =>
                      /\ emitted[k].f["in"] = Str(d.param.in)
                      /\ d.param.in = "path" =>
                           emitted[k].f["required"] = Bool(TRUE)
                      /\ d.param.in \in {"query", "body"} =>
                           emitted[k].f["required"] = Bool(~IsOptional(schema))

\* C9 witness: a chain with a Namespace parameter, a Route path parameter
\* whose schema is optional and a Route query parameter whose schema is
\* optional has been documented.
C9_Witness ==
  /\ Served /\ Len(Chains) = 1
  /\ Len(Chains[1][1].params) = 1
  /\ EndRoute(Chains[1]).params =
       <<[name |-> "p", in |-> "path", def |-> Ref(2)],
         [name |-> "q", in |-> "query", def |-> Ref(2)]>>
  /\ Len(OperationOf(LastDoc, Chains[1]).parameters) = 3
  /\ OperationOf(LastDoc, Chains[1]).parameters[2].f["required"] = Bool(TRUE)
  /\ OperationOf(LastDoc, Chains[1]).parameters[3].f["required"] = Bool(FALSE)

\* The characters of s that are not in the set drop, in order.
RECURSIVE Erase(_, _)
Erase(s, drop) ==
  IF Len(s) = 0 THEN <<>>
  ELSE IF Head(s) \in drop THEN Erase(Tail(s), drop)
       ELSE <<Head(s)>> \o Erase(Tail(s), drop)

\* The positions of s at which a named-parameter marker starts.
Markers(s) == {n \in 1..Len(s) : s[n] = ":" /\ n < Len(s) /\ s[n + 1] \in WordChars}
Count(s, c) == Cardinality({n \in 1..Len(s) : s[n] = c})
BraceFree(s) == \A n \in 1..Len(s) : s[n] \notin {"{", "}"}

\* What C8 says of the rewrite itself: every marker :name has become {name}
\* (no marker is left, one pair of braces per marker) and nothing else has
\* changed; the example of the specification comes out as stated.
RewritesMarkersOnly ==
  /\ Markers(swaggerPath) = {}
  /\ Count(swaggerPath, "{") = Count(path, "{") + Cardinality(Markers(path))
  /\ Count(swaggerPath, "}") = Count(path, "}") + Cardinality(Markers(path))
  /\ Count(swaggerPath, ":") = Count(path, ":") - Cardinality(Markers(path))
  /\ Erase(swaggerPath, {"{", "}", ":"}) = Erase(path, {"{", "}", ":"})
  /\ Len(swaggerPath) = Len(path) + Cardinality(Markers(path))
  /\ (path = ExamplePath => swaggerPath = ExampleSwaggerPath)

\* C8 (as stated): toSwaggerPath rewrites every marker :name into {name} and
\* changes nothing else, applying it to a rewritten path returns that path,
\* and no two different raw paths are rewritten to the same output path.
C8_RewriteIsBijection ==
  /\ phase \in {"rewritten", "rewrittenTwice"} =>
       RewritesMarkersOnly /\ samePath = {path}
  /\ phase = "rewrittenTwice" => swaggerPathTwice = swaggerPath

\* C8 (amended): as above, but two different raw paths are never rewritten
\* to the same output path provided neither contains a brace of its own.
C8_RewriteIsBijectionOnBraceFreePaths ==
  /\ phase \in {"rewritten", "rewrittenTwice"} =>
       /\ RewritesMarkersOnly
       /\ BraceFree(path) => {q \in samePath : BraceFree(q)} = {path}
  /\ phase = "rewrittenTwice" => swaggerPathTwice = swaggerPath

\* C8 witness: the example path, with its two markers, rewritten twice.
C8_Witness ==
  phase = "rewrittenTwice" /\ path = ExamplePath /\ swaggerPath # path

\* r keeps every key of o that is not in the denylist, at every depth, with
\* its value (a nested value kept in the same way), and adds none.
RECURSIVE KeysPreserved(_, _)
KeysPreserved(o, r) ==
  IF o.t = "object"
  THEN /\ r.t = "object"
       /\ DOMAIN o.f \ Denylist \subseteq DOMAIN r.f
       /\ DOMAIN r.f \subseteq DOMAIN o.f
       /\ \A k \in DOMAIN o.f \ Denylist : KeysPreserved(o.f[k], r.f[k])
  ELSE IF o.t = "array"
  THEN /\ r.t = "array"
       /\ Len(r.e) = Len(o.e)
       /\ \A n \in 1..Len(o.e) : KeysPreserved(o.e[n], r.e[n])
  ELSE r = o

\* C4: the sanitization pass is idempotent and removes only denylist keys:
\* every other key, whatever its name and at every depth, is still present
\* in the result with its value.
C4_SanitizeIdempotentAndKeepsOtherKeys ==
  /\ phase \in {"omitted", "omittedTwice"} => KeysPreserved(obj, omitted)
  /\ phase = "omittedTwice" => omittedTwice = omitted

\* r is o with every array reached through object-valued fields left as it
\* was, elements included.
RECURSIVE ArraysUntouched(_, _)
ArraysUntouched(o, r) ==
  IF o.t = "object"
  THEN /\ r.t = "object"
       /\ \A k \in DOMAIN o.f \cap DOMAIN r.f : ArraysUntouched(o.f[k], r.f[k])
  ELSE r = o

\* C10 (as stated): the pass strips denylist keys only from objects reached
\* through object-valued fields; an array anywhere in the shape appears in
\* the result with exactly the same elements, and so does a primitive leaf.
C10_ArraysLeftUntouched ==
  phase \in {"omitted", "omittedTwice"} => ArraysUntouched(obj, omitted)

\* r is o sanitized through arrays too: an object of r has no denylist key
\* and no key o has not, an array of r has the length of o's array and its
\* elements are o's elements treated in the same way, a primitive is kept.
RECURSIVE SanitizedThroughArrays(_, _)
SanitizedThroughArrays(o, r) ==
  IF o.t = "object"
  THEN /\ r.t = "object"
       /\ DOMAIN r.f \subseteq DOMAIN o.f \ Denylist
       /\ \A k \in DOMAIN r.f : SanitizedThroughArrays(o.f[k], r.f[k])
  ELSE IF o.t = "array"
  THEN /\ r.t = "array"
       /\ Len(r.e) = Len(o.e)
       /\ \A n \in 1..Len(o.e) : SanitizedThroughArrays(o.e[n], r.e[n])
  ELSE r = o

\* C10 (amended): the pass strips denylist keys from every object it
\* reaches, through object-valued fields and through array elements alike:
\* an array appears in the result with the same length and order, its
\* primitive elements untouched and its object elements stripped in turn.
C10_ArraysSanitizedElementwise ==
  phase \in {"omitted", "omittedTwice"} => SanitizedThroughArrays(obj, omitted)

\* o holds an array with an object element that has a denylist key.
RECURSIVE HasDenylistKeyInArray(_)
HasDenylistKeyInArray(o) ==
  IF o.t = "object" THEN \E k \in DOMAIN o.f : HasDenylistKeyInArray(o.f[k])
  ELSE IF o.t = "array"
  THEN \E n \in 1..Len(o.e) :
         \/ o.e[n].t = "object" /\ DOMAIN o.e[n].f \cap Denylist # {}
         \/ HasDenylistKeyInArray(o.e[n])
  ELSE FALSE

\* C10 witness: a shape with a denylist key inside an array element, below
\* an object-valued field, has been sanitized.
C10_Witness ==
  /\ phase = "omitted" /\ obj.t = "object"
  /\ \E k \in DOMAIN obj.f \cap DOMAIN omitted.f :
       /\ obj.f[k].t = "array" /\ HasDenylistKeyInArray(obj.f[k])
       /\ omitted.f[k] # obj.f[k]

====
